---- MODULE Spec2Model ----
(***************************************************************************)
(* Client-side upload-and-session state machine of the document Q&A page:  *)
(* the ChatInterface component, the FileUpload component and the Home page *)
(* that composes them (src/frontend/components/ChatInterface.tsx).         *)
(*                                                                         *)
(* Every React event handler runs to completion before the next event is   *)
(* dispatched, so each handler is one action.  An await on the network     *)
(* splits a handler in two actions: the part before the await and the      *)
(* continuation that runs when the promise settles.                        *)
(*                                                                         *)
(* Strings the user types are sequences of one-character strings, so that  *)
(* String.prototype.trim is computed and not assumed.  Message contents    *)
(* are sequences of string pieces: a template literal is the concatenation *)
(* of its pieces.                                                          *)
(***************************************************************************)
EXTENDS Integers, Sequences, FiniteSets, TLC

VARIABLES
    input,           \* ChatInterface: useState('')               (line 17)
    file,            \* FileUpload: useState<File | null>(null)   (line 103)
    isUploading,     \* FileUpload: useState(false)               (line 104)
    uploadProgress,  \* FileUpload: useState(0)                   (line 105)
    dragActive,      \* FileUpload: useState(false)               (line 106)
    xhrs,            \* XMLHttpRequests sent and not yet settled  (line 141)
    documentId,      \* Home: useState<string | null>(null)       (line 285)
    documentName,    \* Home: useState<string | null>(null)       (line 286)
    messages,        \* Home: useState<ChatMessage[]>([])         (line 287)
    pending,         \* fetch('/api/query') calls not yet settled (line 318)
    ev               \* the event dispatched last, when it is a submit, a settled
                     \* request, a file selection or an upload event
                     \* (observation only)

vars == <<input, file, isUploading, uploadProgress, dragActive, xhrs,
          documentId, documentName, messages, pending, ev>>

chatVars == <<input, documentId, documentName, messages, pending>>
uploadVars == <<file, isUploading, uploadProgress, dragActive, xhrs>>

-----------------------------------------------------------------------------
(* Bounds of the model *)

\* longest conversation log explored
MaxMsgs == 3
\* most questions awaiting their answer at once
MaxPending == 2
\* number of steps in which the transport reports the bytes sent
NumChunks == 2

-----------------------------------------------------------------------------
(* Values *)

\* JavaScript null, for the string-valued state of Home
NULL == "<null>"

\* file === null
NoFile == [type |-> "<null>", size |-> 0]

\* what the user may type in the question box: nothing, blanks only, and a
\* question with blanks around it
Texts == { <<>>, <<" ", " ">>, <<" ", "q", " ">> }

\* maxFileSize = 5 * 1024 * 1024
maxFileSize == 5 * 1024 * 1024

PDF == "application/pdf"

FileTypes == {PDF, "text/plain"}
FileSizes == {maxFileSize, maxFileSize + 1}
Files == [type : FileTypes, size : FileSizes]

\* e.target.files / e.dataTransfer.files: empty, or a list whose first file is f
FileLists == {<<>>} \cup {<<f>> : f \in Files}

\* what POST /api/upload may answer
UploadResults ==
    { [documentId |-> "d1", documentName |-> "Q3-Report.pdf"],
      [documentId |-> "d2", documentName |-> "Q4-Report.pdf"] }

ResponseTexts ==
    {[kind |-> "object", value |-> r] : r \in UploadResults}
        \cup {[kind |-> "null"], [kind |-> "malformed"]}

\* how the upload request may load: status 200 with any of the bodies, or an
\* error status, with or without a status text, whose body is not read
HTTP_OK == 200
UploadResponses ==
    {[status |-> HTTP_OK, statusText |-> "OK", responseText |-> t] : t \in ResponseTexts}
        \cup {[status |-> 500, statusText |-> t, responseText |-> [kind |-> "malformed"]] :
                 t \in {"", "Internal Server Error"}}

\* a message without the optional sources field
NoSources == <<>>

\* what POST /api/query may answer on a successful status
QueryData ==
    { [answer |-> <<"Revenue grew.">>,
       sources |-> <<[title |-> "Q3-Report.pdf", page |-> 2]>>] }

\* how a fetch settles: response.ok with a JSON body, response.ok with a body
\* response.json() rejects, a non-ok status, or a rejected fetch
QueryOutcomes ==
    {[kind |-> "ok", data |-> d] : d \in QueryData}
        \cup {[kind |-> "badjson"], [kind |-> "notok"], [kind |-> "reject"]}

Keys == {"Enter", "a"}

-----------------------------------------------------------------------------
(* Pure helpers *)

IsSpace(c) == c = " "

RECURSIVE TrimStart(_)
TrimStart(s) ==
    IF s = <<>> THEN <<>>
    ELSE IF IsSpace(Head(s)) THEN TrimStart(Tail(s))
    ELSE s

RECURSIVE TrimEnd(_)
TrimEnd(s) ==
    IF s = <<>> THEN <<>>
    ELSE IF IsSpace(s[Len(s)]) THEN TrimEnd(SubSeq(s, 1, Len(s) - 1))
    ELSE s

\* String.prototype.trim
Trim(s) == TrimEnd(TrimStart(s))

\* !x for a string-or-null x: null and '' are falsy
Falsy(x) == x = NULL \/ x = ""

\* Math.round(x) for x = num / den >= 0
Round(num, den) == (2 * num + den) \div (2 * den)

Message(type, content, sources) ==
    [type |-> type, content |-> content, sources |-> sources]

RemoveAt(s, i) == SubSeq(s, 1, i - 1) \o SubSeq(s, i + 1, Len(s))

\* JSON.parse(xhr.responseText): the parsed value, or a SyntaxError
JSONParse(text) ==
    IF text.kind = "malformed" THEN [threw |-> TRUE]
    ELSE IF text.kind = "null" THEN [threw |-> FALSE, isNull |-> TRUE]
    ELSE [threw |-> FALSE, isNull |-> FALSE, value |-> text.value]

\* the request body sent to /api/upload is known to the transport as the
\* candidate's bytes; every progress event reports one of these counts
Total(x) == x.file.size
LoadedSteps(x) == {(k * Total(x)) \div NumChunks : k \in 0..NumChunks}

-----------------------------------------------------------------------------
(* Initial state: the three components as constructed by useState *)

\* any event the observation does not tell apart
Other == [op |-> "other"]

Init ==
    /\ input = <<>>
    /\ file = NoFile
    /\ isUploading = FALSE
    /\ uploadProgress = 0
    /\ dragActive = FALSE
    /\ xhrs = <<>>
    /\ documentId = NULL
    /\ documentName = NULL
    /\ messages = <<>>
    /\ pending = <<>>
    /\ ev = Other

-----------------------------------------------------------------------------
(* Home *)

\* Home renders <ChatInterface> without the isLoading prop, so the prop
\* takes its default
isLoading == FALSE

UploadedMessage(name) ==
    Message("assistant",
            <<"Document \"", name,
              "\" has been uploaded successfully. You can now ask questions about it.">>,
            NoSources)

UploadErrorMessage(error) ==
    Message("assistant", <<"Upload error: ">> \o error, NoSources)

UploadFirstMessage ==
    Message("assistant",
            <<"Please upload a document first before asking questions.">>,
            NoSources)

QueryErrorMessage ==
    Message("assistant",
            <<"Sorry, there was an error processing your question.">>,
            NoSources)

\* handleUploadComplete appending to the log instead of replacing it
handleUploadComplete_Appends(result) ==
    /\ documentId' = result.documentId
    /\ documentName' = result.documentName
    /\ messages' = Append(messages, UploadedMessage(result.documentName))

\* handleUploadComplete keeping the document recorded first
handleUploadComplete_KeepsFirstDocument(result) ==
    /\ documentId' = IF documentId = NULL THEN result.documentId ELSE documentId
    /\ documentName' = IF documentName = NULL THEN result.documentName ELSE documentName
    /\ messages' = <<UploadedMessage(result.documentName)>>

handleUploadComplete(result) ==
    /\ documentId' = result.documentId
    /\ documentName' = result.documentName
    /\ messages' = <<UploadedMessage(result.documentName)>>

\* handleUploadError also dropping the active document
handleUploadError_ClearsDocument(error) ==
    /\ messages' = <<UploadErrorMessage(error)>>
    /\ documentId' = NULL
    /\ documentName' = NULL

handleUploadError(error) ==
    /\ messages' = <<UploadErrorMessage(error)>>
    /\ UNCHANGED <<documentId, documentName>>

\* handleChatSubmit without the check of documentId
handleChatSubmit_NoDocumentCheck(message) ==
    /\ messages' = Append(messages, Message("user", message, NoSources))
    /\ pending' = Append(pending, [documentId |-> documentId, question |-> message])
    /\ UNCHANGED <<documentId, documentName>>

\* handleChatSubmit sending the trimmed question
handleChatSubmit_TrimmedQuestion(message) ==
    /\ IF Falsy(documentId)
       THEN /\ messages' = Append(messages, UploadFirstMessage)
            /\ pending' = pending
       ELSE /\ messages' = Append(messages, Message("user", message, NoSources))
            /\ pending' = Append(pending,
                                 [documentId |-> documentId, question |-> Trim(message)])
    /\ UNCHANGED <<documentId, documentName>>

\* handleChatSubmit up to its first await (or its return)
handleChatSubmit(message) ==
    /\ IF Falsy(documentId)
       THEN /\ messages' = Append(messages, UploadFirstMessage)
            /\ pending' = pending
       ELSE /\ messages' = Append(messages, Message("user", message, NoSources))
            /\ pending' = Append(pending,
                                 [documentId |-> documentId, question |-> message])
    /\ UNCHANGED <<documentId, documentName>>

\* the answer appended without its sources
AnswerMessage_DropsSources(outcome) ==
    IF outcome.kind = "ok"
    THEN Message("assistant", outcome.data.answer, NoSources)
    ELSE QueryErrorMessage

\* what handleChatSubmit appends when its fetch settles
AnswerMessage(outcome) ==
    IF outcome.kind = "ok"
    THEN Message("assistant", outcome.data.answer, outcome.data.sources)
    ELSE QueryErrorMessage

-----------------------------------------------------------------------------
(* ChatInterface *)

SendButtonDisabled == Trim(input) = <<>> \/ isLoading

\* handleSendMessage testing the input without trimming it
handleSendMessage_NoTrim ==
    IF input = <<>> \/ isLoading
    THEN UNCHANGED chatVars
    ELSE /\ handleChatSubmit(input)
         /\ input' = IF pending' = pending THEN <<>> ELSE input

\* handleSendMessage up to the point where it is suspended or done: when
\* onSendMessage issued no request its promise is already settled and
\* setInput('') follows in the same task
handleSendMessage ==
    IF Trim(input) = <<>> \/ isLoading
    THEN UNCHANGED chatVars
    ELSE /\ handleChatSubmit(input)
         /\ input' = IF pending' = pending THEN <<>> ELSE input

\* handleChatSubmit writing the answer over the last message of the log
handleChatSubmitSettled_Overwrites(i, outcome) ==
    /\ messages' = IF messages = <<>> THEN <<AnswerMessage(outcome)>>
                   ELSE [messages EXCEPT ![Len(messages)] = AnswerMessage(outcome)]
    /\ pending' = RemoveAt(pending, i)
    /\ input' = <<>>
    /\ UNCHANGED <<documentId, documentName>>

\* the rest of handleChatSubmit and of the handleSendMessage awaiting it,
\* run when the i-th outstanding fetch settles
handleChatSubmitSettled(i, outcome) ==
    /\ messages' = Append(messages, AnswerMessage(outcome))
    /\ pending' = RemoveAt(pending, i)
    /\ input' = <<>>
    /\ UNCHANGED <<documentId, documentName>>

\* room left in the explored log, and among the requests in flight
Room == Len(messages) < MaxMsgs /\ Len(pending) < MaxPending

onChange(text) ==
    /\ ~isLoading
    /\ input' = text
    /\ ev' = Other
    /\ UNCHANGED <<documentId, documentName, messages, pending>>
    /\ UNCHANGED uploadVars

\* a click on the send button; a disabled button dispatches no click
ClickSend ==
    /\ Room
    /\ ~SendButtonDisabled
    /\ handleSendMessage
    /\ ev' = [op |-> "submit", text |-> input]
    /\ UNCHANGED uploadVars

handleKeyPress(key, shiftKey) ==
    /\ ~isLoading
    /\ Room
    /\ IF key = "Enter" /\ ~shiftKey
       THEN /\ handleSendMessage
            /\ ev' = [op |-> "submit", text |-> input]
       ELSE /\ UNCHANGED chatVars
            /\ ev' = Other
    /\ UNCHANGED uploadVars

FetchSettled(i, outcome) ==
    /\ Len(messages) < MaxMsgs
    /\ handleChatSubmitSettled(i, outcome)
    /\ ev' = [op |-> "settled", documentId |-> pending[i].documentId,
              ok |-> outcome.kind = "ok"]
    /\ UNCHANGED uploadVars

-----------------------------------------------------------------------------
(* FileUpload.  onUploadComplete and onUploadError are the props Home      *)
(* passes: handleUploadComplete and handleUploadError.                     *)

MiB == 1024 * 1024

OnlyPdfError == <<"Only PDF files are allowed">>
SizeError == <<"File size exceeds ", ToString(maxFileSize \div MiB), "MB limit">>

\* handleFileSelect resetting the progress before it validates the file
handleFileSelect_ResetsFirst(files) ==
    IF files = <<>>
    THEN UNCHANGED <<file, uploadProgress, documentId, documentName, messages>>
    ELSE LET selectedFile == files[1] IN
         /\ uploadProgress' = 0
         /\ IF selectedFile.type # PDF
            THEN /\ handleUploadError(OnlyPdfError)
                 /\ UNCHANGED file
            ELSE IF selectedFile.size > maxFileSize
            THEN /\ handleUploadError(SizeError)
                 /\ UNCHANGED file
            ELSE /\ file' = selectedFile
                 /\ UNCHANGED <<documentId, documentName, messages>>

handleFileSelect(files) ==
    IF files = <<>>
    THEN UNCHANGED <<file, uploadProgress, documentId, documentName, messages>>
    ELSE LET selectedFile == files[1] IN
         IF selectedFile.type # PDF
         THEN /\ handleUploadError(OnlyPdfError)
              /\ UNCHANGED <<file, uploadProgress>>
         ELSE IF selectedFile.size > maxFileSize
         THEN /\ handleUploadError(SizeError)
              /\ UNCHANGED <<file, uploadProgress>>
         ELSE /\ file' = selectedFile
              /\ uploadProgress' = 0
              /\ UNCHANGED <<documentId, documentName, messages>>

\* handleDrop without the check of the size
handleDrop_NoSizeCheck(files) ==
    /\ dragActive' = FALSE
    /\ IF files = <<>>
       THEN UNCHANGED <<file, uploadProgress, documentId, documentName, messages>>
       ELSE LET droppedFile == files[1] IN
            IF droppedFile.type # PDF
            THEN /\ handleUploadError(OnlyPdfError)
                 /\ UNCHANGED <<file, uploadProgress>>
            ELSE /\ file' = droppedFile
                 /\ uploadProgress' = 0
                 /\ UNCHANGED <<documentId, documentName, messages>>

handleDrop(files) ==
    /\ dragActive' = FALSE
    /\ IF files = <<>>
       THEN UNCHANGED <<file, uploadProgress, documentId, documentName, messages>>
       ELSE LET droppedFile == files[1] IN
            IF droppedFile.type # PDF
            THEN /\ handleUploadError(OnlyPdfError)
                 /\ UNCHANGED <<file, uploadProgress>>
            ELSE IF droppedFile.size > maxFileSize
            THEN /\ handleUploadError(SizeError)
                 /\ UNCHANGED <<file, uploadProgress>>
            ELSE /\ file' = droppedFile
                 /\ uploadProgress' = 0
                 /\ UNCHANGED <<documentId, documentName, messages>>

handleDragOver == dragActive' = TRUE

handleDragLeave == dragActive' = FALSE

\* the upload button disabled only while no file is selected
UploadButtonDisabled_IgnoresUploading == file = NoFile

UploadButtonDisabled == file = NoFile \/ isUploading

\* handleUpload up to xhr.send.  The calls inside the try block (FormData,
\* addEventListener, open with a constant method and URL, send of an opened
\* asynchronous request) do not throw, so the catch block is not entered.
handleUpload ==
    IF file = NoFile
    THEN UNCHANGED <<isUploading, xhrs>>
    ELSE /\ isUploading' = TRUE
         /\ xhrs' = Append(xhrs, [file |-> file, loaded |-> 0])

\* the listener on xhr.upload 'progress'
onProgress(lengthComputable, loaded, total) ==
    IF lengthComputable
    THEN uploadProgress' = Round(loaded * 100, total)
    ELSE UNCHANGED uploadProgress

\* xhr.onload.  An exception thrown by JSON.parse, or by handleUploadComplete
\* reading a property of null, leaves the handler before setIsUploading(false)
onload(status, statusText, responseText) ==
    IF status = HTTP_OK
    THEN LET response == JSONParse(responseText) IN
         IF response.threw \/ response.isNull
         THEN UNCHANGED <<documentId, documentName, messages, isUploading>>
         ELSE /\ handleUploadComplete(response.value)
              /\ isUploading' = FALSE
    ELSE /\ handleUploadError(IF statusText # "" THEN <<statusText>>
                              ELSE <<"Upload failed">>)
         /\ isUploading' = FALSE

\* xhr.onerror
onerror ==
    /\ handleUploadError(<<"Network error during upload">>)
    /\ isUploading' = FALSE

-----------------------------------------------------------------------------
(* Events of FileUpload *)

FileInputChange(files) ==
    /\ handleFileSelect(files)
    /\ ev' = IF files = <<>> THEN Other ELSE [op |-> "select", file |-> files[1]]
    /\ UNCHANGED <<isUploading, dragActive, xhrs, input, pending>>

Drop(files) ==
    /\ handleDrop(files)
    /\ ev' = IF files = <<>> THEN Other ELSE [op |-> "drop", file |-> files[1]]
    /\ UNCHANGED <<isUploading, xhrs, input, pending>>

DragOver ==
    /\ handleDragOver
    /\ ev' = Other
    /\ UNCHANGED <<file, isUploading, uploadProgress, xhrs>>
    /\ UNCHANGED chatVars

DragLeave ==
    /\ handleDragLeave
    /\ ev' = Other
    /\ UNCHANGED <<file, isUploading, uploadProgress, xhrs>>
    /\ UNCHANGED chatVars

\* a click on the upload button; a disabled button dispatches no click
ClickUpload ==
    /\ ~UploadButtonDisabled
    /\ handleUpload
    /\ ev' = [op |-> "upload"]
    /\ UNCHANGED <<file, uploadProgress, dragActive>>
    /\ UNCHANGED chatVars

\* the transport reports the bytes sent so far, which never decrease
XhrProgress(i, lengthComputable, loaded) ==
    /\ loaded >= xhrs[i].loaded
    /\ onProgress(lengthComputable, loaded, Total(xhrs[i]))
    /\ xhrs' = [xhrs EXCEPT ![i].loaded = loaded]
    /\ ev' = Other
    /\ UNCHANGED <<file, isUploading, dragActive>>
    /\ UNCHANGED chatVars

XhrLoad(i, r) ==
    /\ onload(r.status, r.statusText, r.responseText)
    /\ xhrs' = RemoveAt(xhrs, i)
    /\ ev' = [op |-> "load", status |-> r.status, statusText |-> r.statusText,
              responseText |-> r.responseText]
    /\ UNCHANGED <<file, uploadProgress, dragActive, input, pending>>

XhrError(i) ==
    /\ onerror
    /\ xhrs' = RemoveAt(xhrs, i)
    /\ ev' = [op |-> "error"]
    /\ UNCHANGED <<file, uploadProgress, dragActive, input, pending>>

-----------------------------------------------------------------------------

Next ==
    \/ \E text \in Texts : onChange(text)
    \/ ClickSend
    \/ \E key \in Keys, shiftKey \in BOOLEAN : handleKeyPress(key, shiftKey)
    \/ \E i \in 1..Len(pending), outcome \in QueryOutcomes : FetchSettled(i, outcome)
    \/ \E files \in FileLists : FileInputChange(files)
    \/ \E files \in FileLists : Drop(files)
    \/ DragOver
    \/ DragLeave
    \/ ClickUpload
    \/ \E i \in 1..Len(xhrs), lengthComputable \in BOOLEAN :
          \E loaded \in LoadedSteps(xhrs[i]) : XhrProgress(i, lengthComputable, loaded)
    \/ \E i \in 1..Len(xhrs), r \in UploadResponses : XhrLoad(i, r)
    \/ \E i \in 1..Len(xhrs) : XhrError(i)

Spec == Init /\ [][Next]_vars

-----------------------------------------------------------------------------
(* Vocabulary of the properties *)

Last(s) == s[Len(s)]

\* the file passes the checks the spec requires of selectFile
Valid(f) == f.type = PDF /\ f.size <= maxFileSize

IsUploadedMessage(m) ==
    /\ m.type = "assistant"
    /\ m.content[1] = "Document \""

IsUploadErrorMessage(m) ==
    /\ m.type = "assistant"
    /\ m.content[1] = "Upload error: "

Contains(content, piece) == \E k \in 1..Len(content) : content[k] = piece

\* the event just dispatched is a submit of a text that is not blank
SubmittedQuestion == ev'.op = "submit" /\ Trim(input) # <<>>

\* the transport of an upload has just resolved
TransportResolved == ev'.op \in {"load", "error"}

\* an upload has just succeeded: status 200 with a structured result
UploadSucceeded ==
    /\ ev'.op = "load"
    /\ ev'.status = HTTP_OK
    /\ ev'.responseText.kind = "object"

\* an upload has just failed: a network error or a status that is not 200
UploadFailed == ev'.op = "error" \/ (ev'.op = "load" /\ ev'.status # HTTP_OK)

\* a file has just been selected or dropped that selectFile must reject
Rejected == ev'.op \in {"select", "drop"} /\ ~Valid(ev'.file)

-----------------------------------------------------------------------------
(* C1: a request to the answer service is issued only while an active      *)
(* document identifier is set; a submit of a non-blank text made while no  *)
(* document is active appends exactly one assistant message, the 'upload a *)
(* document first' notice, appends no user message and issues no request.  *)
C1_QueryOnlyWithDocument ==
    [][ /\ (pending' # pending /\ Len(pending') >= Len(pending)
              => /\ ~Falsy(documentId)
                 /\ ~Falsy(Last(pending').documentId))
        /\ (SubmittedQuestion /\ Falsy(documentId)
              => /\ messages' = Append(messages, UploadFirstMessage)
                 /\ UploadFirstMessage.type = "assistant"
                 /\ pending' = pending)
      ]_vars

C1_Witness ==
    /\ ev.op = "submit"
    /\ Trim(ev.text) # <<>>
    /\ Falsy(documentId)
    /\ Len(messages) >= 2
    /\ Last(messages) = UploadFirstMessage
    /\ pending = <<>>

(* C2: at most one question submission is outstanding: while a submit      *)
(* awaits its response a further submit attempt leaves the log unchanged   *)
(* and issues no request.                                                  *)
C2_SingleOutstandingSubmit ==
    [][ /\ Len(pending') <= 1
        /\ (ev'.op = "submit" /\ pending # <<>>
              => messages' = messages /\ pending' = pending)
      ]_vars

(* C3: while a transmission is in flight the upload progress stays within  *)
(* 0..100 and never decreases, whatever other events interleave.           *)
C3_ProgressMonotone ==
    [][ xhrs # <<>> /\ xhrs' # <<>>
          => /\ uploadProgress' \in 0..100
             /\ uploadProgress' >= uploadProgress
      ]_vars

(* C4: when the transport of a transmission resolves (load with any status *)
(* and body, or network error) exactly one of onUploadComplete and         *)
(* onUploadError is fired, seen as the one message Home then holds, and    *)
(* the uploading flag is cleared.                                          *)
C4_TransmissionEnds ==
    [][ TransportResolved
          => /\ isUploading' = FALSE
             /\ Len(messages') = 1
             /\ IsUploadedMessage(messages'[1]) \/ IsUploadErrorMessage(messages'[1])
      ]_vars

(* C5: at most one upload transmission is in flight; a transmission starts *)
(* only from a selected candidate and only while none is in flight.        *)
C5_SingleTransmission ==
    [][ /\ Len(xhrs') <= 1
        /\ (Len(xhrs') > Len(xhrs) => file # NoFile /\ xhrs = <<>>)
        /\ (xhrs' # <<>> => xhrs'[1].file # NoFile)
      ]_vars

C5_Witness ==
    /\ Len(xhrs) = 1
    /\ file # NoFile
    /\ UploadButtonDisabled
    /\ ev.op = "upload"

(* C6: a file that is not a PDF or exceeds the maximum size, selected by   *)
(* the picker or dropped, is rejected: the validation error is reported    *)
(* through onUploadError, the progress and the uploading flag keep their   *)
(* values and no transmission starts.                                      *)
C6_InvalidFileRejected ==
    [][ Rejected
          => /\ messages' = <<UploadErrorMessage(IF ev'.file.type # PDF
                                                  THEN OnlyPdfError ELSE SizeError)>>
             /\ uploadProgress' = uploadProgress
             /\ isUploading' = isUploading
             /\ xhrs' = xhrs
      ]_vars

C6_Witness ==
    /\ ev.op = "select"
    /\ ev.file.type = PDF
    /\ ev.file.size > maxFileSize
    /\ messages = <<UploadErrorMessage(SizeError)>>
    /\ isUploading
    /\ uploadProgress = 50
    /\ Len(xhrs) = 1

(* C7: a submit of a non-blank text made while a document is active        *)
(* appends a user message holding exactly the submitted text and issues    *)
(* exactly one request carrying the active document identifier and that    *)
(* text; requests are issued by submits only, so none is ever retried.     *)
C7_OneRequestPerSubmit ==
    [][ /\ (SubmittedQuestion /\ ~Falsy(documentId)
              => /\ messages' = Append(messages, Message("user", input, NoSources))
                 /\ pending' = Append(pending, [documentId |-> documentId,
                                                question |-> input]))
        /\ (pending' # pending /\ Len(pending') >= Len(pending)
              => ev'.op = "submit" /\ Len(pending') = Len(pending) + 1)
        /\ (ev'.op = "settled" => Len(pending') = Len(pending) - 1)
      ]_vars

C7_Witness ==
    /\ ev.op = "submit"
    /\ ev.text = <<" ", "q", " ">>
    /\ documentId = "d2"
    /\ Last(messages) = Message("user", <<" ", "q", " ">>, NoSources)
    /\ pending = <<[documentId |-> "d2", question |-> <<" ", "q", " ">>]>>

(* C8: when an upload succeeds the returned document identifier and name   *)
(* become the active document and the log becomes exactly one assistant    *)
(* message containing the document name, whatever it held before.          *)
C8_UploadSuccessSeedsLog ==
    [][ UploadSucceeded
          => /\ documentId' = ev'.responseText.value.documentId
             /\ documentName' = ev'.responseText.value.documentName
             /\ Len(messages') = 1
             /\ messages'[1].type = "assistant"
             /\ Contains(messages'[1].content, ev'.responseText.value.documentName)
      ]_vars

C8_Witness ==
    /\ ev.op = "load"
    /\ ev.status = HTTP_OK
    /\ ev.responseText.kind = "object"
    /\ ev.responseText.value.documentName = "Q3-Report.pdf"
    /\ documentId = "d1"
    /\ documentName = "Q3-Report.pdf"
    /\ messages = <<UploadedMessage("Q3-Report.pdf")>>
    /\ pending # <<>>

(* C9: when an upload fails the log becomes exactly one message surfacing  *)
(* the failure reason and the active document is left unchanged; the       *)
(* active document changes only on a successful upload.                    *)
C9_UploadFailureKeepsDocument ==
    [][ /\ (UploadFailed
              => /\ messages' =
                       <<UploadErrorMessage(
                           IF ev'.op = "error" THEN <<"Network error during upload">>
                           ELSE IF ev'.statusText # "" THEN <<ev'.statusText>>
                           ELSE <<"Upload failed">>)>>
                 /\ documentId' = documentId
                 /\ documentName' = documentName)
        /\ (documentId' # documentId \/ documentName' # documentName
              => UploadSucceeded)
      ]_vars

C9_Witness ==
    /\ ev.op = "load"
    /\ ev.status # HTTP_OK
    /\ ev.statusText = "Internal Server Error"
    /\ messages = <<UploadErrorMessage(<<"Internal Server Error">>)>>
    /\ documentId = "d1"
    /\ documentName = "Q3-Report.pdf"

(* C10: a submit whose text is empty or blank after trimming appends no    *)
(* message and issues no request, whether or not a document is active.     *)
C10_BlankSubmitIgnored ==
    [][ ev'.op = "submit" /\ Trim(input) = <<>>
          => messages' = messages /\ pending' = pending
      ]_vars

C10_Witness ==
    /\ ev.op = "submit"
    /\ ev.text = <<" ", " ">>
    /\ input = <<" ", " ">>
    /\ ~Falsy(documentId)
    /\ Len(messages) = 1
    /\ pending = <<>>

(* C11: the loading flag is true in every state in which a question        *)
(* submission is in flight, the submit action being disabled there, and    *)
(* false again once no submission is in flight.                            *)
C11_LoadingWhileInFlight ==
    /\ pending # <<>> => isLoading /\ SendButtonDisabled
    /\ pending = <<>> => ~isLoading

IsPrefix(s, t) == Len(s) <= Len(t) /\ SubSeq(t, 1, Len(s)) = s

(* C12, as stated: across every step the log before the step is a prefix   *)
(* of the log after it.                                                    *)
C12_AppendOnly == [][ IsPrefix(messages, messages') ]_vars

(* C12, amended: a submit and the arrival of an answer or of a query error *)
(* only append to the log; an upload success, an upload failure and a      *)
(* validation failure replace the log by a single message.                 *)
C12_AppendOnlyBetweenUploads ==
    [][ IF UploadSucceeded \/ UploadFailed \/ Rejected
        THEN /\ Len(messages') = 1
             /\ IsUploadedMessage(messages'[1]) \/ IsUploadErrorMessage(messages'[1])
        ELSE /\ IsPrefix(messages, messages')
             /\ Len(messages') <= Len(messages) + 1
      ]_vars

C12_Witness ==
    /\ ev.op = "settled"
    /\ Len(messages) = 3
    /\ IsUploadedMessage(messages[1])
    /\ messages[2].type = "user"
    /\ messages[3].type = "assistant"

(* C13: every request to the answer service, when it settles, appends      *)
(* exactly one assistant message to the log: the returned answer with its  *)
(* sources on a successful response, the generic error message on a        *)
(* non-success status or an exception; the failure is caught, so the       *)
(* submit operation completes and clears the input.                        *)
C13_OneReplyPerRequest ==
    [][ ev'.op = "settled"
          => /\ Len(messages') = Len(messages) + 1
             /\ IsPrefix(messages, messages')
             /\ Last(messages').type = "assistant"
             /\ IF ev'.ok
                THEN \E d \in QueryData :
                        /\ Last(messages').content = d.answer
                        /\ Last(messages').sources = d.sources
                ELSE Last(messages') = QueryErrorMessage
             /\ Len(pending') = Len(pending) - 1
             /\ input' = <<>>
      ]_vars

C13_Witness ==
    /\ ev.op = "settled"
    /\ ev.ok
    /\ Len(messages) = 3
    /\ messages[2].type = "user"
    /\ Last(messages).sources = <<[title |-> "Q3-Report.pdf", page |-> 2]>>
    /\ pending = <<>>

(* C14: the active document identifier is read at each submission: it is   *)
(* null until an upload succeeds and from then on the identifier the most  *)
(* recent successful upload returned; a submit of a non-blank text is      *)
(* blocked locally while it is null and otherwise dispatches a request     *)
(* carrying it.                                                            *)
C14_DocumentReadPerSubmit ==
    [][ /\ IF UploadSucceeded
           THEN documentId' = ev'.responseText.value.documentId
           ELSE documentId' = documentId
        /\ (SubmittedQuestion
              => IF documentId = NULL
                 THEN pending' = pending /\ Last(messages') = UploadFirstMessage
                 ELSE /\ Len(pending') = Len(pending) + 1
                      /\ Last(pending').documentId = documentId)
      ]_vars

C14_Witness ==
    /\ ev.op = "submit"
    /\ Trim(ev.text) # <<>>
    /\ documentId = "d2"
    /\ Len(pending) = 2
    /\ pending[1].documentId = "d1"
    /\ pending[2].documentId = "d2"

(* C15: picker selection and drag-and-drop enforce identical validation:   *)
(* a drop of a file leaves the candidate, the progress, the reported error *)
(* and the active document exactly as handleFileSelect leaves them for the *)
(* same file from the same state, and starts no transmission either.       *)
C15_DropValidatesAsSelect ==
    [][ ev'.op = "drop"
          => /\ handleFileSelect(<<ev'.file>>)
             /\ isUploading' = isUploading
             /\ xhrs' = xhrs
      ]_vars

C15_Witness ==
    /\ ev.op = "drop"
    /\ ev.file.type = PDF
    /\ ev.file.size > maxFileSize
    /\ file # NoFile
    /\ messages = <<UploadErrorMessage(SizeError)>>
    /\ uploadProgress = 100

(* C16: a rejected selectFile clears the candidate selected before: after  *)
(* the rejection no candidate is selected, so the upload button is         *)
(* disabled and the earlier candidate cannot be transmitted.               *)
C16_RejectionClearsCandidate ==
    [][ Rejected => file' = NoFile /\ UploadButtonDisabled' ]_vars

(* C17: whenever startUpload begins a transmission the upload state        *)
(* becomes Uploading with progress 0, also for an upload started after an  *)
(* earlier one completed or failed.                                        *)
C17_UploadStartsAtZero ==
    [][ Len(xhrs') > Len(xhrs) => isUploading' /\ uploadProgress' = 0 ]_vars

(* C18: a successful transmission consumes the candidate: after an upload  *)
(* succeeds no candidate is selected and the upload button is disabled     *)
(* until a new file is selected or dropped.                                *)
C18_SuccessConsumesCandidate ==
    [][ UploadSucceeded => file' = NoFile /\ UploadButtonDisabled' ]_vars

\* the message is an answer of the answer service or the query-error notice
IsReply(m) ==
    \/ m = QueryErrorMessage
    \/ m.type = "assistant" /\ \E d \in QueryData : m.content = d.answer

(* C19: every answer or query-error message of the log is preceded in the  *)
(* log by a user message, and it is appended while the document its        *)
(* request was made for is still the active one, whatever upload events    *)
(* interleave with the pending request.                                    *)
C19_ReplyFollowsItsQuestion ==
    [][ /\ \A k \in 1..Len(messages') :
              IsReply(messages'[k])
                 => \E j \in 1..(k - 1) : messages'[j].type = "user"
        /\ (ev'.op = "settled" => ev'.documentId = documentId')
      ]_vars

====
